---- MODULE Spec2Model ----
(***************************************************************************)
(* Model of the live-streaming page (LiveStreamingPage): the WebSocket     *)
(* client with its reconnect loop, the live-signal buffer, the streaming   *)
(* toggle, the status query and the test-signal request; and of the        *)
(* feature gate of subscriptionUtils; the pricing page (Pricing) with its   *)
(* annual toggle and its two checkouts; and the plan editor of the admin   *)
(* subscriptions page (AdminSubscriptions).                                *)
(*                                                                         *)
(* The page is a React function component.  Every render creates fresh     *)
(* closures connectWebSocket / disconnectWebSocket that capture the        *)
(* isStreaming and connectionAttempts values of THAT render.  The effect   *)
(* that owns the socket has the dependency list [isStreaming], so it runs  *)
(* on mount and on every flip of isStreaming, and the socket handlers and  *)
(* the reconnect timer created by a call of connectWebSocket keep the      *)
(* captured values of the render whose effect made the call (the timer     *)
(* callback calls the same connectWebSocket closure again).  wsRef is a    *)
(* ref: one mutable cell shared by all renders.  After the unmount the     *)
(* state setters of the component do nothing; the ref, the sockets, the    *)
(* timers and the toaster live on.                                         *)
(***************************************************************************)
EXTENDS Integers, Sequences, FiniteSets, TLC

\* ------------------------------------------------------------------ bounds
MaxSockets      == 4   \* sockets constructed in one behaviour of Spec
MaxToggles      == 3   \* clicks on the streaming button in one behaviour
MaxFrames       == 2   \* inbound frames delivered in one behaviour of Spec
MaxRetrySockets == 7   \* sockets constructed in one behaviour of SpecRetry
MaxPushes       == 52  \* inbound frames delivered in one behaviour of SpecBuffer
BufferSockets   == 1   \* sockets constructed in one behaviour of SpecBuffer
MaxMocks        == 1   \* socket constructions that fail in one behaviour
TeardownSockets == 3   \* sockets constructed in one behaviour of SpecTeardown
MaxTests        == 2   \* test-signal requests in one behaviour of SpecSurface
SurfaceSockets  == 2   \* sockets constructed in one behaviour of SpecSurface
MaxFetches      == 4   \* status fetches issued in one behaviour of SpecPoller
MaxRepeats      == 1   \* signal frames that repeat an id in one behaviour of SpecOrder
MaxPlans        == 2   \* plans in a response of /api/subscription-plans
MaxCheckouts    == 2   \* checkouts started in one behaviour of SpecPricing
MaxUpdates      == 2   \* plan updates submitted in one behaviour
MaxCents        == 500 \* the prices 0..MaxCents (cents) are tried in SpecRoundTrip

\* ------------------------------------------------------- program constants
SliceEnd     == 49    \* prev.slice(0, 49)
MaxAttempts  == 5     \* connectionAttempts < 5
BackoffBase  == 2     \* Math.pow(2, connectionAttempts)
MsPerSecond  == 1000  \* ... * 1000
PollInterval == 30000 \* refetchInterval: ... ? 30000 : false
Unlimited    == -1    \* maxTickers: -1, maxSignalsPerMonth: -1
CentsPerDollar == 100 \* plan.monthlyPrice / 100, Math.round(... * 100)
Precision    == 53    \* significant binary digits of a number (IEEE 754 binary64)

ToastTitles == {"Connected", "Signal", "Connection Error", "Connection Failed",
                "Test Signal Sent", "Error"}

\* What a message event can carry: a signal frame, a signal frame without its
\* data, a connection frame, a frame of a type the handler does not know, or
\* text that is not JSON.
FrameKinds == {"signal", "signal-no-data", "connection", "unknown-type",
               "unparseable"}

\* The frames that fill the buffer in SpecBuffer.
BufferFrameKinds == {"signal", "connection", "unparseable"}

VARIABLES
    isConnected,        \* useState(false)
    isStreaming,        \* useState(false)
    liveSignals,        \* useState<LiveSignal[]>([]), index 1 is element 0
    connectionAttempts, \* useState(0)
    wsRef,              \* useRef<WebSocket | null>(null): 0 is null, else a socket
    sockets,            \* every WebSocket constructed so far, in order
    timers,             \* pending setTimeout callbacks of onclose
    toasts,             \* toast() calls so far, by title
    uncaught,           \* exceptions that left a handler uncaught
    toggles,            \* clicks on the streaming button so far
    frames,             \* inbound frames delivered so far
    lastFrame,          \* the frame delivered last
    lastPushed,         \* the signal passed to setLiveSignals last
    received,           \* the payloads of the signal frames received, in arrival order
    sinceOpen,          \* history of the run of closes since the last toggle/open
    mounted,            \* the page is mounted
    statusData,         \* data of the status query, NoData before the first success
    pollInterval,       \* the interval the query's refetch timer is armed with, 0: none
    fetching,           \* a status fetch is in flight
    fetches,            \* status fetches issued so far
    lastFetch,          \* what issued the last status fetch
    testPending,        \* test-signal requests in flight
    userTier,           \* hasAccess: the argument userTier of the last call
    requiredFeature,    \* hasAccess: the argument requiredFeature of the last call
    hasFeature,         \* hasAccess: what the last call returned
    isAnnual,           \* Pricing: useState(false)
    subscriptionPlans,  \* Pricing: data of the plans query, [] before the first success
    loading,            \* Pricing: useState(null): 0 is null, else the id of a plan
    stripePending,      \* Pricing: create-subscription requests in flight
    checkout,           \* Pricing: the checkout started last
    checkouts,          \* Pricing: checkouts started so far
    paymentErrors,      \* Pricing: "Payment Error" toasts so far
    switchedBack,       \* Pricing: the effect has called setIsAnnual(false)
    plans,              \* AdminSubscriptions: data of the plans query
    selectedPlan,       \* AdminSubscriptions: useState(null), NoSelection is null
    isEditDialogOpen,   \* AdminSubscriptions: useState(false)
    updating,           \* AdminSubscriptions: the update request in flight
    pristine,           \* AdminSubscriptions: the plan under edit, while no field was changed
    planToasts          \* AdminSubscriptions: toasts of updatePlanMutation, by title

clientVars == <<isConnected, isStreaming, liveSignals, connectionAttempts, wsRef,
                sockets, timers, toasts, uncaught, toggles, frames, lastFrame,
                lastPushed, received, sinceOpen, mounted>>

pollVars == <<statusData, pollInterval, fetching, fetches, lastFetch>>

accessVars == <<userTier, requiredFeature, hasFeature>>

pricingVars == <<isAnnual, subscriptionPlans, loading, stripePending, checkout,
                 checkouts, paymentErrors, switchedBack>>

editorVars == <<plans, selectedPlan, isEditDialogOpen, updating, pristine,
                planToasts>>

pageVars == <<pricingVars, editorVars>>

vars == <<clientVars, pollVars, testPending, accessVars, pageVars>>

NoFrame   == [kind |-> "none", id |-> 0]
NoSignal  == [id |-> 0]
NoRun     == [closes |-> 0, attempts |-> 0, delays |-> <<>>]
NoData    == [fetched |-> FALSE, isActivelyStreaming |-> FALSE]

\* message.data of a signal frame that carries no data: undefined.
Undefined == [id |-> -1]

\* The capacity the buffer is meant to have ("Keep last 50 signals").
BufferCapacity == SliceEnd + 1

Min(a, b) == IF a < b THEN a ELSE b

RECURSIVE Pow(_, _)
Pow(b, n) == IF n = 0 THEN 1 ELSE b * Pow(b, n - 1)

\* The values a render's closures capture.
Closure(streaming, attempts) ==
    [isStreaming |-> streaming, connectionAttempts |-> attempts]

toast(ts, title) == [ts EXCEPT ![title] = @ + 1]

\* ------------------------------------------------------------ signal buffer
\* Mutant: the slice keeps one element too many, prev.slice(0, 50).
pushSignalSliceTooLong(prev, signal) ==
    <<signal>> \o SubSeq(prev, 1, Min(Len(prev), SliceEnd + 1))

\* Mutant: an entry with the id of the new signal is replaced, not kept.
pushSignalDedup(prev, signal) ==
    LET differs(e) == e.id # signal.id
        kept == SelectSeq(prev, differs)
    IN  <<signal>> \o SubSeq(kept, 1, Min(Len(kept), SliceEnd))

\* prev => [signal, ...prev.slice(0, 49)]
pushSignal(prev, signal) ==
    <<signal>> \o SubSeq(prev, 1, Min(Len(prev), SliceEnd))

\* ------------------------------------------------------- connect/disconnect
\* new WebSocket(wsUrl) is the constructor main.tsx installs on window: when
\* the URL check or the original constructor throws it returns an inert object
\* (no event is ever delivered to it), so the call never throws.
newWebSocket(constructs) ==
    [threw |-> FALSE, readyState |-> IF constructs THEN "CONNECTING" ELSE "MOCK"]

\* try { wsRef.current = new WebSocket(wsUrl); the four handlers are attached,
\* capturing env, the values of the render that made the call }
\* catch { toast "Connection Failed" }.  A throw would leave wsRef as it was.
connectWebSocket(st, env, constructs) ==
    LET ws == newWebSocket(constructs)
    IN  IF ws.threw
        THEN [st EXCEPT !.toasts = toast(@, "Connection Failed")]
        ELSE [st EXCEPT !.sockets = Append(@, [readyState |-> ws.readyState,
                                               env |-> env]),
                        !.wsRef   = Len(st.sockets) + 1]

\* WebSocket.close(): a socket that is connecting or open starts closing; its
\* close event is delivered later, to the handlers still attached to it.
close(socks, s) ==
    [socks EXCEPT ![s].readyState =
        IF @ \in {"CONNECTING", "OPEN"} THEN "CLOSING" ELSE @]

\* Mutant: the ref is dropped without closing the socket it held.
disconnectWebSocketNoClose(st) ==
    [st EXCEPT !.wsRef = 0, !.isConnected = FALSE]

\* if (wsRef.current) { wsRef.current.close(); wsRef.current = null; }
\* setIsConnected(false);
disconnectWebSocket(st) ==
    [st EXCEPT !.sockets     = IF st.wsRef # 0 THEN close(@, st.wsRef) ELSE @,
               !.wsRef       = 0,
               !.isConnected = FALSE]

\* ------------------------------------------------------------------- onopen
\* Mutant: onopen forgets its toast.
onopenSilent(st) ==
    [st EXCEPT !.isConnected = TRUE, !.connectionAttempts = 0]

\* setIsConnected(true); setConnectionAttempts(0); toast "Connected"
onopen(st) ==
    [st EXCEPT !.isConnected        = TRUE,
               !.connectionAttempts = 0,
               !.toasts             = toast(@, "Connected")]

\* ------------------------------------------------------------------ onclose
\* if (isStreaming && connectionAttempts < 5), on the captured values
oncloseReconnects(env) ==
    env.isStreaming /\ env.connectionAttempts < MaxAttempts

\* Math.pow(2, connectionAttempts) * 1000, on the captured value
backoffDelay(env) == Pow(BackoffBase, env.connectionAttempts) * MsPerSecond

\* ------------------------------------------------------------------ onerror
\* Mutant: onerror also marks the client disconnected.
onerrorDisconnects(st) ==
    [st EXCEPT !.isConnected = FALSE, !.toasts = toast(@, "Connection Error")]

\* console.error; toast "Connection Error"
onerror(st) ==
    [st EXCEPT !.toasts = toast(@, "Connection Error")]

\* ---------------------------------------------------------------- onmessage
\* JSON.parse(event.data): the parsed message, or a throw (SyntaxError).
JSONparse(frame) ==
    IF frame.kind = "unparseable"
    THEN [threw |-> TRUE, type |-> "", data |-> NoSignal]
    ELSE IF frame.kind = "signal-no-data"
    THEN [threw |-> FALSE, type |-> "signal", data |-> Undefined]
    ELSE [threw |-> FALSE, type |-> frame.kind, data |-> [id |-> frame.id]]

\* The signal branch: const signal = message.data as LiveSignal (no check);
\* setLiveSignals(prev => [signal, ...]); then the toast reads
\* signal.signalType, which throws a TypeError when signal is undefined: the
\* update of liveSignals is already queued, the toast is not made.
onSignal(st, signal) ==
    LET pushed == [st EXCEPT !.liveSignals = pushSignal(@, signal),
                             !.lastPushed  = signal]
    IN  IF signal = Undefined
        THEN [pushed EXCEPT !.threw = TRUE]
        ELSE [pushed EXCEPT !.toasts = toast(@, "Signal")]

\* Mutant: onmessage without its try/catch, a throw leaves the handler.
onmessageUnguarded(st, frame) ==
    LET message == JSONparse(frame)
        tried   == IF message.threw THEN [st EXCEPT !.threw = TRUE]
                   ELSE IF message.type = "signal" THEN onSignal(st, message.data)
                   ELSE st
    IN  IF tried.threw THEN [tried EXCEPT !.uncaught = @ + 1] ELSE tried

\* Mutant: every frame that parses is taken for a signal, whatever its type.
onmessageAnyType(st, frame) ==
    LET message == JSONparse(frame)
        tried   == IF message.threw THEN [st EXCEPT !.threw = TRUE]
                   ELSE onSignal(st, message.data)
    IN  tried

\* onmessage: try { JSON.parse; signal -> setLiveSignals + toast; connection ->
\* console.log } catch { console.error }.
onmessage(st, frame) ==
    LET message == JSONparse(frame)
        tried   == IF message.threw THEN [st EXCEPT !.threw = TRUE]
                   ELSE IF message.type = "signal" THEN onSignal(st, message.data)
                   ELSE st
    IN  tried

\* ------------------------------------------------- useEffect([isStreaming])
\* The effect of a render that captured env: connect when streaming, else
\* disconnect.
effect(st, env, constructs) ==
    IF env.isStreaming THEN connectWebSocket(st, env, constructs)
                       ELSE disconnectWebSocket(st)

\* The function the effect returns, run before the next effect and at the
\* unmount.
cleanup(st) == disconnectWebSocket(st)

\* --------------------------------------------------------- sendTestSignal
\* Mutant: a sent test signal is also put into the buffer locally.
sendTestSignalEchoes(st, ok) ==
    IF ok THEN [st EXCEPT !.toasts = toast(@, "Test Signal Sent"),
                          !.liveSignals = pushSignal(@, Undefined)]
          ELSE [st EXCEPT !.toasts = toast(@, "Error")]

\* After await apiRequest(...): toast "Test Signal Sent", or in the catch
\* toast "Error".
sendTestSignal(st, ok) ==
    IF ok THEN [st EXCEPT !.toasts = toast(@, "Test Signal Sent")]
          ELSE [st EXCEPT !.toasts = toast(@, "Error")]

\* ------------------------------------------------------------ status query
\* Mutant: the query polls whether or not streaming is on.
refetchIntervalAlways(data, streaming) == PollInterval

\* (data) => (data?.isActivelyStreaming || isStreaming) ? 30000 : false
refetchInterval(data, streaming) ==
    IF (data.fetched /\ data.isActivelyStreaming) \/ streaming
    THEN PollInterval ELSE 0

\* The query observer re-evaluates refetchInterval with the options of the
\* latest render and the latest data, and re-arms its setInterval timer when
\* the value has changed; unmounted, it has no timer.
updateRefetchInterval(data, streaming, isMounted) ==
    IF isMounted THEN refetchInterval(data, streaming) ELSE 0

\* -------------------------------------------------------- subscriptionUtils
\* null, the default of the parameter userTier.
Null == "<null>"

Tiers == {Null, "elite", "pro", "none", "basic", "premium", "free", "Elite", "PRO"}

NumberFeatures == {"maxTickers", "maxSignalsPerMonth"}

\* keyof FeatureAccess
Features ==
    {"basicSignals", "premiumSignals", "realTimeAlerts", "trading_dashboard",
     "basicCharts", "advancedCharts", "heatmapAnalysis", "cycleForecasting",
     "tradingPlayground", "emailAlerts", "smsAlerts", "telegramAlerts",
     "pushNotifications", "advancedAlerts", "multiChannelAlerts",
     "advancedAnalytics", "historicalData", "liveStreaming", "adminAccess",
     "apiAccess", "prioritySupport", "customIndicators", "whiteLabel"}
    \cup NumberFeatures

\* SUBSCRIPTION_FEATURES.none: every flag false, both limits 0.
FeaturesNone ==
    [f \in Features |-> IF f \in NumberFeatures THEN 0 ELSE FALSE]

\* Mutant: the pro table also grants whiteLabel.
FeaturesProWhiteLabel ==
    [f \in Features |-> IF f \in NumberFeatures THEN Unlimited
                        ELSE f # "adminAccess"]

\* SUBSCRIPTION_FEATURES.pro: everything but adminAccess and whiteLabel.
FeaturesPro ==
    [f \in Features |-> IF f \in NumberFeatures THEN Unlimited
                        ELSE f \notin {"adminAccess", "whiteLabel"}]

\* Mutant: the elite table also grants adminAccess.
FeaturesEliteAdmin ==
    [f \in Features |-> IF f \in NumberFeatures THEN Unlimited ELSE TRUE]

\* SUBSCRIPTION_FEATURES.elite: everything but adminAccess.
FeaturesElite ==
    [f \in Features |-> IF f \in NumberFeatures THEN Unlimited
                        ELSE f # "adminAccess"]

\* Mutant: the tier is compared without regard to case.
getFeatureAccessAnyCase(subscriptionTier) ==
    IF subscriptionTier \in {"elite", "Elite"} THEN FeaturesElite
    ELSE IF subscriptionTier \in {"pro", "PRO"} THEN FeaturesPro
    ELSE FeaturesNone

\* subscriptionTier === "elite" ? elite : subscriptionTier === "pro" ? pro : none
getFeatureAccess(subscriptionTier) ==
    IF subscriptionTier = "elite" THEN FeaturesElite
    ELSE IF subscriptionTier = "pro" THEN FeaturesPro
    ELSE FeaturesNone

\* Boolean(access[requiredFeature]): a number is true unless it is 0.
hasAccess(tier, feature) ==
    LET access == getFeatureAccess(tier)
    IN  IF feature \in NumberFeatures THEN access[feature] # 0 ELSE access[feature]

\* --------------------------------------------------------------- JS numbers
\* A number of the program is an IEEE 754 binary64 value.  The model keeps the
\* non-negative finite ones exactly: Zero, or 53 significant binary digits
\* (the first one is 1) and the position of the binary point; the value of
\* [digits |-> d, point |-> p] is the sum of d[i] * 2^(p - i).  
Zero == [digits |-> <<>>, point |-> 0]

Zeros(n) == [i \in 1..n |-> 0]

\* The w binary digits of the natural number n < 2^w, most significant first.
Digits(n, w) == [i \in 1..w |-> (n \div Pow(2, w - i)) % 2]

\* The binary digits of the natural number n < 2^30, without leading zeros.
Binary(n) ==
    Digits(n, CHOOSE w \in 0..30 :
                  n < Pow(2, w) /\ (w = 0 \/ Pow(2, w - 1) <= n))

RECURSIVE Natural(_)
\* The natural number with the binary digits ds.
Natural(ds) ==
    IF Len(ds) = 0 THEN 0
    ELSE IF Len(ds) = 1 THEN ds[1]
    ELSE LET h == Len(ds) \div 2
         IN  Natural(SubSeq(ds, 1, h)) * Pow(2, Len(ds) - h)
                 + Natural(SubSeq(ds, h + 1, Len(ds)))

\* ds + 1 in Len(ds) digits, for ds that are not all ones.
Increment(ds) ==
    LET last == CHOOSE i \in DOMAIN ds :
                    ds[i] = 0 /\ \A j \in (i + 1)..Len(ds) : ds[j] = 1
    IN  [i \in DOMAIN ds |-> IF i < last THEN ds[i] ELSE IF i = last THEN 1 ELSE 0]

\* The number of zeros before the first 1 of ds.
LeadingZeros(ds) ==
    Cardinality({i \in DOMAIN ds : \A j \in 1..i : ds[j] = 0})

\* The binary64 value nearest to the exact value with digits ds, the binary
\* point after the first `point` of them, and something non-zero beyond the
\* last digit iff `sticky`: round to nearest, ties to even.
Round(ds, point, sticky) ==
    LET z     == LeadingZeros(ds)
        sig   == SubSeq(ds, z + 1, Len(ds))
        p     == point - z
        kept  == SubSeq(sig, 1, Precision)
        guard == sig[Precision + 1]
        rest  == sticky \/ \E i \in (Precision + 2)..Len(sig) : sig[i] = 1
        up    == guard = 1 /\ (rest \/ kept[Precision] = 1)
    IN  IF Len(sig) = 0 THEN Zero
        ELSE IF Len(sig) <= Precision
        THEN [digits |-> sig \o Zeros(Precision - Len(sig)), point |-> p]
        ELSE IF ~up THEN [digits |-> kept, point |-> p]
        ELSE IF \A i \in 1..Precision : kept[i] = 1
        THEN [digits |-> <<1>> \o Zeros(Precision - 1), point |-> p + 1]
        ELSE [digits |-> Increment(kept), point |-> p]

\* The number with the value of the natural number n.
Number(n) == Round(Binary(n), Len(Binary(n)), FALSE)

RECURSIVE LongDivision(_, _, _)
\* The first n binary digits of r / d behind the point (0 <= r < d < 2^10),
\* and the remainder left after them; 20 digits are made at a time.
LongDivision(r, d, n) ==
    IF n = 0 THEN [digits |-> <<>>, rem |-> r]
    ELSE LET w    == Min(n, 20)
             t    == r * Pow(2, w)
             rest == LongDivision(t % d, d, n - w)
         IN  [digits |-> Digits(t \div d, w) \o rest.digits, rem |-> rest.rem]

\* n / d for natural numbers n and d > 0: the exact quotient, rounded once.
Divide(n, d) ==
    LET whole == Binary(n \div d)
        frac  == LongDivision(n % d, d, Precision + 1 + Len(Binary(d)))
    IN  Round(whole \o frac.digits, Len(whole), frac.rem # 0)

RECURSIVE TimesDigits(_, _, _)
\* The binary digits of ds * m + carry (m < 2^10); 20 digits are multiplied
\* at a time, from the right.
TimesDigits(ds, m, carry) ==
    IF Len(ds) = 0 THEN Binary(carry)
    ELSE LET w == Min(Len(ds), 20)
             t == Natural(SubSeq(ds, Len(ds) - w + 1, Len(ds))) * m + carry
         IN  TimesDigits(SubSeq(ds, 1, Len(ds) - w), m, t \div Pow(2, w))
                 \o Digits(t % Pow(2, w), w)

\* x * m for a number x and a natural m > 0: the exact product, rounded once.
Times(x, m) ==
    IF x = Zero THEN Zero
    ELSE LET product == TimesDigits(x.digits, m, 0)
         IN  Round(product, x.point + Len(product) - Len(x.digits), FALSE)

\* Mutant: Math.floor in the place of Math.round.
MathFloor(x) ==
    IF x = Zero \/ x.point <= 0 THEN 0
    ELSE Natural(SubSeq(x.digits, 1, x.point))

\* Math.round(x): the integer nearest to x, a tie going up.  (Values below
\* 2^30 only.)
MathRound(x) ==
    IF x = Zero \/ x.point < 0 THEN 0
    ELSE Natural(SubSeq(x.digits, 1, x.point)) + x.digits[x.point + 1]

\* Boolean(x) of a number: false for 0.
Truthy(x) == x # Zero

\* ------------------------------------------------------------ plans, prices
\* A price that may be null (yearlyPrice: number | null): in cents, a natural
\* number, or in dollars, a number.
NullPrice == [isNull |-> TRUE, value |-> 0]

NullDollars == [isNull |-> TRUE, value |-> Zero]

Price(n) == [isNull |-> FALSE, value |-> n]

\* The plans a response of /api/subscription-plans can carry: the plan at
\* index i has the id i.
PlanLists(maxPlans, monthlyPrices, yearlyPrices, actives) ==
    UNION {{[i \in 1..n |-> [id           |-> i,
                             monthlyPrice |-> f[i][1],
                             yearlyPrice  |-> f[i][2],
                             isActive     |-> f[i][3]]] :
               f \in [1..n -> monthlyPrices \X yearlyPrices \X actives]} :
           n \in 0..maxPlans}

\* The prices of the plans the pricing page is given, in cents.
PlanMonthlyPrices == {2999}

PlanYearlyPrices == {NullPrice, Price(0), Price(29990)}

\* The plans tried in the round trip through the plan editor: one plan, with
\* every monthly price of 0..MaxCents cents, and a yearly price that is null
\* or runs through 0..MaxCents the other way.
RoundTripPlans ==
    {<<[id |-> 1, monthlyPrice |-> c, yearlyPrice |-> y, isActive |-> TRUE]>> :
        c \in 0..MaxCents, y \in {NullPrice}} \cup
    {<<[id |-> 1, monthlyPrice |-> c, yearlyPrice |-> Price(MaxCents - c),
        isActive |-> TRUE]>> : c \in 0..MaxCents}

\* What the admin types into the monthly price field: "19.99".  parseFloat
\* gives the number nearest to the decimal, which is what 1999 / 100 gives.
EditedDollars == {Divide(1999, CentsPerDollar)}

NoCheckout == [via |-> "none", plan |-> 0, billingInterval |-> "", amount |-> Zero]

NoPlan == [id |-> 0, monthlyPrice |-> 0, yearlyPrice |-> NullPrice, isActive |-> FALSE]

NoSelection == [id |-> 0, monthlyPrice |-> Zero, yearlyPrice |-> NullDollars]

NoUpdate == [id |-> 0, data |-> [monthlyPrice |-> 0, yearlyPrice |-> NullPrice]]

\* ------------------------------------------------------------- pricing page
\* plan.yearlyPrice && plan.yearlyPrice > 0
hasYearlyPrice(plan) ==
    /\ ~plan.yearlyPrice.isNull
    /\ plan.yearlyPrice.value # 0
    /\ plan.yearlyPrice.value > 0

\* subscriptionPlans.some(plan => plan.yearlyPrice)
hasYearlyPlans(ps) ==
    \E i \in DOMAIN ps : ~ps[i].yearlyPrice.isNull /\ ps[i].yearlyPrice.value # 0

\* The indices of subscriptionPlans.filter(plan => plan.isActive)
activePlans(ps) == {i \in DOMAIN ps : ps[i].isActive}

\* Mutant: the effect is missing.
autoSwitchNever(annual, ps) == annual

\* useEffect([isAnnual, hasYearlyPlans]): if (isAnnual && !hasYearlyPlans)
\* setIsAnnual(false).  The value of isAnnual once the effect has run.
autoSwitch(annual, ps) ==
    IF annual /\ ~hasYearlyPlans(ps) THEN FALSE ELSE annual

\* Mutant: the billing interval follows the toggle alone.
stripeBillingIntervalOfToggle(plan, annual) ==
    IF annual THEN "yearly" ELSE "monthly"

\* handleStripeCheckout: hasYearlyPrice && isAnnual ? "yearly" : "monthly"
stripeBillingInterval(plan, annual) ==
    IF hasYearlyPrice(plan) /\ annual THEN "yearly" ELSE "monthly"

\* handlePayPalCheckout: the amount (dollars) and the billing interval put in
\* the URL.
paypalCheckout(plan, annual) ==
    LET showYearlyPrice == annual /\ hasYearlyPrice(plan)
    IN  [amount |-> IF showYearlyPrice
                    THEN Divide(plan.yearlyPrice.value, CentsPerDollar)
                    ELSE Divide(plan.monthlyPrice, CentsPerDollar),
         billingInterval |-> IF showYearlyPrice THEN "yearly" ELSE "monthly"]

\* The plan card: the price (cents, before formatPrice) and the period shown.
planCard(plan, annual) ==
    LET showYearlyPrice == annual /\ hasYearlyPrice(plan)
    IN  [price  |-> IF showYearlyPrice THEN plan.yearlyPrice.value
                                       ELSE plan.monthlyPrice,
         period |-> IF showYearlyPrice THEN "year" ELSE "month"]

\* -------------------------------------------------------------- plan editor
\* openEditDialog: setSelectedPlan({...plan, monthlyPrice: plan.monthlyPrice /
\* 100, yearlyPrice: plan.yearlyPrice ? plan.yearlyPrice / 100 : null}).  The
\* fields that are copied and passed on as they are (name, tier, features,
\* maxSignals, maxTickers, isActive) are left out.
openEditDialog(plan) ==
    [id           |-> plan.id,
     monthlyPrice |-> Divide(plan.monthlyPrice, CentsPerDollar),
     yearlyPrice  |-> IF ~plan.yearlyPrice.isNull /\ plan.yearlyPrice.value # 0
                      THEN Price(Divide(plan.yearlyPrice.value, CentsPerDollar))
                      ELSE NullDollars]

\* handleUpdatePlan: planData, the prices back in cents.
planData(selected) ==
    [monthlyPrice |-> MathRound(Times(selected.monthlyPrice, CentsPerDollar)),
     yearlyPrice  |-> IF ~selected.yearlyPrice.isNull /\ Truthy(selected.yearlyPrice.value)
                      THEN Price(MathRound(Times(selected.yearlyPrice.value,
                                                 CentsPerDollar)))
                      ELSE NullPrice]

\* updatePlanMutation.onSuccess: toast "Success"; setIsEditDialogOpen(false);
\* setSelectedPlan(null).  (invalidateQueries starts a refetch of the plans.)
onUpdateSuccess(st, id) ==
    [st EXCEPT !.isEditDialogOpen = FALSE, !.selectedPlan = NoSelection,
               !.planToasts = [@ EXCEPT !["Success"] = @ + 1]]

\* --------------------------------------------------------------------- Init
\* The state after mount: the effect has run once with isStreaming = false and
\* called disconnectWebSocket(), which found wsRef.current null; the status
\* query has issued its first fetch; hasAccess has not been called; the
\* pricing page and the admin page have mounted and their plans queries have
\* not answered yet.
Init ==
    /\ isConnected = FALSE
    /\ isStreaming = FALSE
    /\ liveSignals = <<>>
    /\ connectionAttempts = 0
    /\ wsRef = 0
    /\ sockets = <<>>
    /\ timers = <<>>
    /\ toasts = [t \in ToastTitles |-> 0]
    /\ uncaught = 0
    /\ toggles = 0
    /\ frames = 0
    /\ lastFrame = NoFrame
    /\ lastPushed = NoSignal
    /\ received = <<>>
    /\ sinceOpen = NoRun
    /\ mounted = TRUE
    /\ statusData = NoData
    /\ pollInterval = 0
    /\ fetching = TRUE
    /\ fetches = 1
    /\ lastFetch = "mount"
    /\ testPending = 0
    /\ userTier = Null
    /\ requiredFeature = ""
    /\ hasFeature = FALSE
    /\ isAnnual = FALSE
    /\ subscriptionPlans = <<>>
    /\ loading = 0
    /\ stripePending = 0
    /\ checkout = NoCheckout
    /\ checkouts = 0
    /\ paymentErrors = 0
    /\ switchedBack = FALSE
    /\ plans = <<>>
    /\ selectedPlan = NoSelection
    /\ isEditDialogOpen = FALSE
    /\ updating = NoUpdate
    /\ pristine = NoPlan
    /\ planToasts = [t \in {"Success", "Error"} |-> 0]

\* ------------------------------------------------------------------ actions
\* What new WebSocket may do at the next construction: succeed, or (at most
\* maxMocks times) fail and yield the inert object.
Outcomes(maxMocks) ==
    IF Cardinality({s \in DOMAIN sockets : sockets[s].readyState = "MOCK"}) < maxMocks
    THEN BOOLEAN ELSE {TRUE}

\* A click on the streaming button: toggleStreaming() flips isStreaming, the
\* re-render commits (the status query gets the new refetchInterval), the
\* previous effect's cleanup runs and then the effect of the new render, whose
\* closures capture the new render's values.
ToggleStreaming(maxToggles, maxSockets, outcomes) ==
    /\ mounted
    /\ toggles < maxToggles
    /\ isStreaming \/ Len(sockets) < maxSockets
    /\ \E constructs \in outcomes :
        LET next == ~isStreaming
            env  == Closure(next, connectionAttempts)
            st0  == [sockets |-> sockets, wsRef |-> wsRef,
                     isConnected |-> isConnected, toasts |-> toasts]
            st1  == effect(cleanup(st0), env, constructs)
        IN  /\ isStreaming' = next
            /\ sockets' = st1.sockets
            /\ wsRef' = st1.wsRef
            /\ isConnected' = st1.isConnected
            /\ toasts' = st1.toasts
            /\ pollInterval' = updateRefetchInterval(statusData, next, TRUE)
    /\ toggles' = toggles + 1
    /\ sinceOpen' = NoRun
    /\ UNCHANGED <<liveSignals, connectionAttempts, timers, uncaught, frames,
                   lastFrame, lastPushed, received, mounted, statusData, fetching, fetches,
                   lastFetch, testPending, accessVars, pageVars>>

\* The open event of socket s: onopen.
SocketOpen(s) ==
    /\ sockets[s].readyState = "CONNECTING"
    /\ sockets' = [sockets EXCEPT ![s].readyState = "OPEN"]
    /\ LET st0 == [isConnected |-> isConnected,
                   connectionAttempts |-> connectionAttempts, toasts |-> toasts]
           st1 == onopen(st0)
       IN  /\ isConnected' = IF mounted THEN st1.isConnected ELSE isConnected
           /\ connectionAttempts' = IF mounted THEN st1.connectionAttempts
                                               ELSE connectionAttempts
           /\ toasts' = st1.toasts
    /\ sinceOpen' = NoRun
    /\ UNCHANGED <<isStreaming, liveSignals, wsRef, timers, uncaught, toggles,
                   frames, lastFrame, lastPushed, received, mounted, pollVars, testPending,
                   accessVars, pageVars>>

\* The close event of socket s (the connection failed, dropped, or close()
\* was called on it): onclose, with the values its closure captured.
SocketClose(s) ==
    /\ sockets[s].readyState \in {"CONNECTING", "OPEN", "CLOSING"}
    /\ sockets' = [sockets EXCEPT ![s].readyState = "CLOSED"]
    /\ isConnected' = IF mounted THEN FALSE ELSE isConnected
    /\ LET env   == sockets[s].env
           armed == oncloseReconnects(env)
       IN  /\ timers' = IF armed
                        THEN Append(timers, [delay |-> backoffDelay(env), env |-> env])
                        ELSE timers
           /\ sinceOpen' = [sinceOpen EXCEPT
                               !.closes = @ + 1,
                               !.delays = IF armed THEN Append(@, backoffDelay(env))
                                                   ELSE @]
    /\ UNCHANGED <<isStreaming, liveSignals, connectionAttempts, wsRef, toasts,
                   uncaught, toggles, frames, lastFrame, lastPushed, received, mounted,
                   pollVars, testPending, accessVars, pageVars>>

\* The error event of socket s: onerror.  The transport has failed; the close
\* event follows.
SocketError(s) ==
    /\ sockets[s].readyState \in {"CONNECTING", "OPEN"}
    /\ sockets' = [sockets EXCEPT ![s].readyState = "CLOSING"]
    /\ LET st0 == [isConnected |-> isConnected, toasts |-> toasts]
           st1 == onerror(st0)
       IN  /\ isConnected' = IF mounted THEN st1.isConnected ELSE isConnected
           /\ toasts' = st1.toasts
    /\ UNCHANGED <<isStreaming, liveSignals, connectionAttempts, wsRef, timers,
                   uncaught, toggles, frames, lastFrame, lastPushed, received, sinceOpen,
                   mounted, pollVars, testPending, accessVars, pageVars>>

\* Pending timer i fires: setConnectionAttempts(prev => prev + 1) and
\* connectWebSocket(), the closure that armed the timer.
TimerFires(i, maxSockets, outcomes) ==
    /\ Len(sockets) < maxSockets
    /\ \E constructs \in outcomes :
        LET env == timers[i].env
            st0 == [sockets |-> sockets, wsRef |-> wsRef,
                    isConnected |-> isConnected, toasts |-> toasts]
            st1 == connectWebSocket(st0, env, constructs)
        IN  /\ sockets' = st1.sockets
            /\ wsRef' = st1.wsRef
            /\ isConnected' = st1.isConnected
            /\ toasts' = st1.toasts
    /\ connectionAttempts' = IF mounted THEN connectionAttempts + 1
                                        ELSE connectionAttempts
    /\ timers' = [k \in 1..(Len(timers) - 1) |->
                    IF k < i THEN timers[k] ELSE timers[k + 1]]
    /\ sinceOpen' = [sinceOpen EXCEPT !.attempts = @ + 1]
    /\ UNCHANGED <<isStreaming, liveSignals, uncaught, toggles, frames,
                   lastFrame, lastPushed, received, mounted, pollVars, testPending,
                   accessVars, pageVars>>

\* A message event of socket s carrying frame: onmessage.  The history of
\* the wire keeps the payload of every signal frame that parsed.
MessageEvent(s, frame, maxFrames) ==
    /\ frames < maxFrames
    /\ sockets[s].readyState = "OPEN"
    /\ LET st0 == [liveSignals |-> liveSignals, lastPushed |-> lastPushed,
                   toasts |-> toasts, uncaught |-> uncaught, threw |-> FALSE]
           st1 == onmessage(st0, frame)
           message == JSONparse(frame)
       IN  /\ lastFrame' = frame
           /\ liveSignals' = IF mounted THEN st1.liveSignals ELSE liveSignals
           /\ lastPushed' = st1.lastPushed
           /\ toasts' = st1.toasts
           /\ uncaught' = st1.uncaught
           /\ received' = IF ~message.threw /\ message.type = "signal"
                          THEN Append(received, message.data) ELSE received
    /\ frames' = frames + 1
    /\ UNCHANGED <<isConnected, isStreaming, connectionAttempts, wsRef, sockets,
                   timers, toggles, sinceOpen, mounted, pollVars, testPending,
                   accessVars, pageVars>>

\* A message event of socket s.  The server numbers its signals: the id of a
\* signal frame is one more than the number of signals received before it.
OnMessage(s, kind, maxFrames) ==
    MessageEvent(s, [kind |-> kind,
                     id   |-> IF kind = "signal" THEN toasts["Signal"] + 1 ELSE 0],
                 maxFrames)

\* A message event of socket s whose signal frame carries the id of the
\* signal received last once more (the server sends a signal twice).
OnRepeatedSignal(s, maxFrames, maxRepeats) ==
    /\ lastPushed \notin {NoSignal, Undefined}
    /\ Len(received) - Cardinality({received[i] : i \in DOMAIN received}) < maxRepeats
    /\ MessageEvent(s, [kind |-> "signal", id |-> lastPushed.id], maxFrames)

\* The page is left: the component unmounts, the effect's cleanup runs and the
\* query observer drops its refetch timer.  The component state is gone (the
\* variables keep their last values; no setter changes them any more).
Unmount ==
    /\ mounted
    /\ mounted' = FALSE
    /\ LET st0 == [sockets |-> sockets, wsRef |-> wsRef, isConnected |-> isConnected]
           st1 == cleanup(st0)
       IN  /\ sockets' = st1.sockets
           /\ wsRef' = st1.wsRef
    /\ pollInterval' = updateRefetchInterval(statusData, isStreaming, FALSE)
    /\ UNCHANGED <<isConnected, isStreaming, liveSignals, connectionAttempts,
                   timers, toasts, uncaught, toggles, frames, lastFrame,
                   lastPushed, received, sinceOpen, statusData, fetching, fetches,
                   lastFetch, testPending, accessVars, pageVars>>

\* A click on "Send Test Signal": sendTestSignal() up to its await.
SendTestSignal(maxTests) ==
    /\ mounted
    /\ testPending + toasts["Test Signal Sent"] + toasts["Error"] < maxTests
    /\ testPending' = testPending + 1
    /\ UNCHANGED <<clientVars, pollVars, accessVars, pageVars>>

\* The test-signal request settles: sendTestSignal() after its await.
TestSignalSettles(ok) ==
    /\ testPending > 0
    /\ testPending' = testPending - 1
    /\ LET st0 == [toasts |-> toasts, liveSignals |-> liveSignals]
           st1 == sendTestSignal(st0, ok)
       IN  /\ toasts' = st1.toasts
           /\ liveSignals' = IF mounted THEN st1.liveSignals ELSE liveSignals
    /\ UNCHANGED <<isConnected, isStreaming, connectionAttempts, wsRef, sockets,
                   timers, uncaught, toggles, frames, lastFrame, lastPushed, received,
                   sinceOpen, mounted, pollVars, accessVars, pageVars>>

\* The refetch timer of the status query fires, pollInterval ms after it was
\* armed or fired last: a fetch is issued unless one is in flight.
PollTimerFires(maxFetches) ==
    /\ pollInterval # 0
    /\ ~fetching
    /\ fetches < maxFetches
    /\ fetching' = TRUE
    /\ fetches' = fetches + 1
    /\ lastFetch' = "interval"
    /\ UNCHANGED <<clientVars, statusData, pollInterval, testPending, accessVars, pageVars>>

\* A click on the refresh button (disabled while the first load is under way):
\* refetch().
ManualRefetch(maxFetches) ==
    /\ mounted
    /\ ~(fetching /\ ~statusData.fetched)
    /\ fetches < maxFetches
    /\ fetching' = TRUE
    /\ fetches' = fetches + 1
    /\ lastFetch' = "manual"
    /\ UNCHANGED <<clientVars, statusData, pollInterval, testPending, accessVars, pageVars>>

\* The status fetch in flight succeeds; the response may or may not carry a
\* true isActivelyStreaming.
FetchSucceeds(active) ==
    /\ fetching
    /\ fetching' = FALSE
    /\ statusData' = [fetched |-> TRUE, isActivelyStreaming |-> active]
    /\ pollInterval' = updateRefetchInterval(statusData', isStreaming, mounted)
    /\ UNCHANGED <<clientVars, fetches, lastFetch, testPending, accessVars, pageVars>>

\* The status fetch in flight fails: the data stays.
FetchFails ==
    /\ fetching
    /\ fetching' = FALSE
    /\ UNCHANGED <<clientVars, statusData, pollInterval, fetches, lastFetch,
                   testPending, accessVars, pageVars>>

\* A call hasAccess(tier, feature).
CallHasAccess(tier, feature) ==
    /\ userTier' = tier
    /\ requiredFeature' = feature
    /\ hasFeature' = hasAccess(tier, feature)
    /\ UNCHANGED <<clientVars, pollVars, testPending, pageVars>>

\* The plans query of the pricing page answers with ps (the first load, or a
\* refetch of stale data); the page renders and its effect runs.
PlansFetched(ps) ==
    /\ subscriptionPlans' = ps
    /\ isAnnual' = autoSwitch(isAnnual, ps)
    /\ switchedBack' = (switchedBack \/ (isAnnual /\ ~isAnnual'))
    /\ UNCHANGED <<clientVars, pollVars, testPending, accessVars, loading,
                   stripePending, checkout, checkouts, paymentErrors, editorVars>>

\* A click on the billing toggle, which is rendered when there are active
\* plans and hasYearlyPlans: setIsAnnual(!isAnnual), then the effect.
ToggleAnnual ==
    /\ activePlans(subscriptionPlans) # {}
    /\ hasYearlyPlans(subscriptionPlans)
    /\ isAnnual' = autoSwitch(~isAnnual, subscriptionPlans)
    /\ switchedBack' = (switchedBack \/ (~isAnnual /\ ~isAnnual'))
    /\ UNCHANGED <<clientVars, pollVars, testPending, accessVars,
                   subscriptionPlans, loading, stripePending, checkout,
                   checkouts, paymentErrors, editorVars>>

\* A click on the Stripe button of the card of plan i (disabled while loading
\* is the plan's id): handleStripeCheckout up to its await.
HandleStripeCheckout(i, maxCheckouts) ==
    /\ i \in activePlans(subscriptionPlans)
    /\ loading # subscriptionPlans[i].id
    /\ checkouts < maxCheckouts
    /\ loading' = subscriptionPlans[i].id
    /\ stripePending' = stripePending + 1
    /\ checkout' = [via |-> "stripe", plan |-> i,
                    billingInterval |->
                        stripeBillingInterval(subscriptionPlans[i], isAnnual),
                    amount |-> Zero]
    /\ checkouts' = checkouts + 1
    /\ UNCHANGED <<clientVars, pollVars, testPending, accessVars, isAnnual,
                   subscriptionPlans, paymentErrors, switchedBack, editorVars>>

\* A create-subscription request settles: handleStripeCheckout after its
\* await (the redirect, or the toast of the catch), and its finally.
StripeSettles(ok) ==
    /\ stripePending > 0
    /\ stripePending' = stripePending - 1
    /\ paymentErrors' = IF ok THEN paymentErrors ELSE paymentErrors + 1
    /\ loading' = 0
    /\ UNCHANGED <<clientVars, pollVars, testPending, accessVars, isAnnual,
                   subscriptionPlans, checkout, checkouts, switchedBack,
                   editorVars>>

\* A click on the PayPal button of the card of plan i: handlePayPalCheckout,
\* which has no await; its finally leaves loading null.
HandlePayPalCheckout(i, maxCheckouts) ==
    /\ i \in activePlans(subscriptionPlans)
    /\ checkouts < maxCheckouts
    /\ LET url == paypalCheckout(subscriptionPlans[i], isAnnual)
       IN  checkout' = [via |-> "paypal", plan |-> i,
                        billingInterval |-> url.billingInterval,
                        amount |-> url.amount]
    /\ loading' = 0
    /\ checkouts' = checkouts + 1
    /\ UNCHANGED <<clientVars, pollVars, testPending, accessVars, isAnnual,
                   subscriptionPlans, stripePending, paymentErrors, switchedBack,
                   editorVars>>

\* The plans query of the admin page answers with ps: the first load, or
\* (followed when `refetches`) a refetch: staleTime is 0 and a success
\* invalidates the query.
AdminPlansFetched(ps, refetches) ==
    /\ refetches \/ Len(plans) = 0
    /\ plans' = ps
    /\ UNCHANGED <<clientVars, pollVars, testPending, accessVars, pricingVars,
                   selectedPlan, isEditDialogOpen, updating, pristine, planToasts>>

\* A click on Edit in the card of plan i (the cards are behind the dialog
\* while it is open): openEditDialog(plan).
OpenEditDialog(i) ==
    /\ i \in DOMAIN plans
    /\ ~isEditDialogOpen
    /\ selectedPlan' = openEditDialog(plans[i])
    /\ isEditDialogOpen' = TRUE
    /\ pristine' = plans[i]
    /\ UNCHANGED <<clientVars, pollVars, testPending, accessVars, pricingVars,
                   plans, updating, planToasts>>

\* Cancel, Escape or a click outside the dialog: setIsEditDialogOpen(false).
CancelEdit ==
    /\ isEditDialogOpen
    /\ isEditDialogOpen' = FALSE
    /\ UNCHANGED <<clientVars, pollVars, testPending, accessVars, pricingVars,
                   plans, selectedPlan, updating, pristine, planToasts>>

\* The admin types a monthly price: setSelectedPlan({...selectedPlan,
\* monthlyPrice: parseFloat(e.target.value) || 0}).
ChangeMonthlyPrice(dollars) ==
    /\ isEditDialogOpen
    /\ selectedPlan.id # 0
    /\ selectedPlan.monthlyPrice # dollars
    /\ selectedPlan' = [selectedPlan EXCEPT !.monthlyPrice = dollars]
    /\ pristine' = NoPlan
    /\ UNCHANGED <<clientVars, pollVars, testPending, accessVars, pricingVars,
                   plans, isEditDialogOpen, updating, planToasts>>

\* A click on "Update Plan" (disabled while the mutation is pending):
\* handleUpdatePlan, which returns at once when selectedPlan is null.
HandleUpdatePlan(maxUpdates) ==
    /\ isEditDialogOpen
    /\ updating.id = 0
    /\ selectedPlan.id # 0
    /\ planToasts["Success"] + planToasts["Error"] < maxUpdates
    /\ updating' = [id |-> selectedPlan.id, data |-> planData(selectedPlan)]
    /\ UNCHANGED <<clientVars, pollVars, testPending, accessVars, pricingVars,
                   plans, selectedPlan, isEditDialogOpen, pristine, planToasts>>

\* The update request succeeds: onSuccess.
UpdateSucceeds ==
    /\ updating.id # 0
    /\ LET st0 == [isEditDialogOpen |-> isEditDialogOpen,
                   selectedPlan |-> selectedPlan, planToasts |-> planToasts]
           st1 == onUpdateSuccess(st0, updating.id)
       IN  /\ isEditDialogOpen' = st1.isEditDialogOpen
           /\ selectedPlan' = st1.selectedPlan
           /\ planToasts' = st1.planToasts
    /\ pristine' = IF selectedPlan'.id = 0 THEN NoPlan ELSE pristine
    /\ updating' = NoUpdate
    /\ UNCHANGED <<clientVars, pollVars, testPending, accessVars, pricingVars,
                   plans>>

\* The update request fails: onError, toast "Error".
UpdateFails ==
    /\ updating.id # 0
    /\ planToasts' = [planToasts EXCEPT !["Error"] = @ + 1]
    /\ updating' = NoUpdate
    /\ UNCHANGED <<clientVars, pollVars, testPending, accessVars, pricingVars,
                   plans, selectedPlan, isEditDialogOpen, pristine>>

\* ----------------------------------------------------------- specifications
\* The mounted client: the toggle, the socket events, the reconnect timers and
\* the inbound frames.
Next ==
    \/ ToggleStreaming(MaxToggles, MaxSockets, {TRUE})
    \/ \E s \in DOMAIN sockets : SocketOpen(s)
    \/ \E s \in DOMAIN sockets : SocketClose(s)
    \/ \E s \in DOMAIN sockets : SocketError(s)
    \/ \E i \in DOMAIN timers : TimerFires(i, MaxSockets, {TRUE})
    \/ \E s \in DOMAIN sockets, k \in FrameKinds : OnMessage(s, k, MaxFrames)

Spec == Init /\ [][Next]_vars

\* Construction failures and the unmount, with the socket events and the
\* reconnect timers.
NextTeardown ==
    \/ ToggleStreaming(MaxToggles, TeardownSockets, Outcomes(MaxMocks))
    \/ \E s \in DOMAIN sockets : SocketOpen(s)
    \/ \E s \in DOMAIN sockets : SocketClose(s)
    \/ \E i \in DOMAIN timers : TimerFires(i, TeardownSockets, Outcomes(MaxMocks))
    \/ Unmount

SpecTeardown == Init /\ [][NextTeardown]_vars

\* The reconnect loop alone, followed deep enough to pass the retry budget: no
\* frames, no error events, no failed construction.
NextRetry ==
    \/ ToggleStreaming(MaxToggles, MaxRetrySockets, {TRUE})
    \/ \E s \in DOMAIN sockets : SocketOpen(s)
    \/ \E s \in DOMAIN sockets : SocketClose(s)
    \/ \E i \in DOMAIN timers : TimerFires(i, MaxRetrySockets, {TRUE})

SpecRetry == Init /\ [][NextRetry]_vars

\* The signal buffer filled past its capacity: one socket, many frames.
NextBuffer ==
    \/ ToggleStreaming(MaxToggles, BufferSockets, {TRUE})
    \/ \E s \in DOMAIN sockets : SocketOpen(s)
    \/ \E s \in DOMAIN sockets, k \in BufferFrameKinds : OnMessage(s, k, MaxPushes)

SpecBuffer == Init /\ [][NextBuffer]_vars

\* The order of the buffer: one socket, many signal frames, some of which
\* repeat the id of the frame before them.
NextOrder ==
    \/ ToggleStreaming(MaxToggles, BufferSockets, {TRUE})
    \/ \E s \in DOMAIN sockets : SocketOpen(s)
    \/ \E s \in DOMAIN sockets : OnMessage(s, "signal", MaxPushes)
    \/ \E s \in DOMAIN sockets : OnRepeatedSignal(s, MaxPushes, MaxRepeats)

SpecOrder == Init /\ [][NextOrder]_vars

\* The control surface: the toggle and the test-signal button, with the socket
\* events and frames they interleave with.
NextSurface ==
    \/ ToggleStreaming(MaxToggles, SurfaceSockets, {TRUE})
    \/ \E s \in DOMAIN sockets : SocketOpen(s)
    \/ \E s \in DOMAIN sockets : SocketClose(s)
    \/ \E i \in DOMAIN timers : TimerFires(i, SurfaceSockets, {TRUE})
    \/ \E s \in DOMAIN sockets, k \in FrameKinds : OnMessage(s, k, MaxFrames)
    \/ SendTestSignal(MaxTests)
    \/ \E ok \in BOOLEAN : TestSignalSettles(ok)

SpecSurface == Init /\ [][NextSurface]_vars

\* The status query: the toggle, the refetch timer, the refresh button, the
\* fetch results and the unmount.
NextPoller ==
    \/ ToggleStreaming(MaxToggles, SurfaceSockets, {TRUE})
    \/ PollTimerFires(MaxFetches)
    \/ ManualRefetch(MaxFetches)
    \/ \E active \in BOOLEAN : FetchSucceeds(active)
    \/ FetchFails
    \/ Unmount

SpecPoller == Init /\ [][NextPoller]_vars

\* The feature gate: hasAccess called with every tier and feature.
NextAccess ==
    \E tier \in Tiers, feature \in Features : CallHasAccess(tier, feature)

SpecAccess == Init /\ [][NextAccess]_vars

\* The pricing page: the plans query, the annual toggle and the two
\* checkouts.
NextPricing ==
    \/ \E ps \in PlanLists(MaxPlans, PlanMonthlyPrices, PlanYearlyPrices, BOOLEAN) :
           PlansFetched(ps)
    \/ ToggleAnnual
    \/ \E i \in DOMAIN subscriptionPlans : HandleStripeCheckout(i, MaxCheckouts)
    \/ \E ok \in BOOLEAN : StripeSettles(ok)
    \/ \E i \in DOMAIN subscriptionPlans : HandlePayPalCheckout(i, MaxCheckouts)

SpecPricing == Init /\ [][NextPricing]_vars

\* The plan editor with its update request, on the plans of the pricing
\* page.
NextEditor ==
    \/ \E ps \in PlanLists(MaxPlans, PlanMonthlyPrices, PlanYearlyPrices, {TRUE}) :
           AdminPlansFetched(ps, TRUE)
    \/ \E i \in DOMAIN plans : OpenEditDialog(i)
    \/ CancelEdit
    \/ \E dollars \in EditedDollars : ChangeMonthlyPrice(dollars)
    \/ HandleUpdatePlan(MaxUpdates)
    \/ UpdateSucceeds
    \/ UpdateFails

SpecEditor == Init /\ [][NextEditor]_vars

\* The round trip of the prices through the plan editor: the plans of
\* RoundTripPlans, loaded once.
NextRoundTrip ==
    \/ \E ps \in RoundTripPlans : AdminPlansFetched(ps, FALSE)
    \/ \E i \in DOMAIN plans : OpenEditDialog(i)
    \/ CancelEdit
    \/ \E dollars \in EditedDollars : ChangeMonthlyPrice(dollars)
    \/ HandleUpdatePlan(MaxUpdates)
    \/ UpdateSucceeds
    \/ UpdateFails

SpecRoundTrip == Init /\ [][NextRoundTrip]_vars

\* =================================================================== claims

\* C1: under every sequence of received signal frames the buffer holds at most
\* 50 entries and its element 0 is the signal pushed last; once the signal
\* with id 51 has been pushed, the buffer holds exactly 50 entries, id 51 is at
\* index 0 and id 1 is gone.
BufferBound ==
    /\ Len(liveSignals) <= BufferCapacity
    /\ lastPushed # NoSignal =>
          /\ liveSignals # <<>>
          /\ liveSignals[1] = lastPushed
    /\ lastPushed.id = BufferCapacity + 1 =>
          /\ Len(liveSignals) = BufferCapacity
          /\ liveSignals[1].id = BufferCapacity + 1
          /\ \A i \in DOMAIN liveSignals : liveSignals[i].id # 1

\* The 51st signal has been pushed into a full buffer.
BufferBoundWitness ==
    /\ lastPushed.id = BufferCapacity + 1
    /\ Len(liveSignals) = BufferCapacity
    /\ liveSignals[BufferCapacity].id = 2

\* C2: while streaming stays on and no open succeeds, at most 5 automatic
\* reconnect attempts are made.  (The code makes a 6th: onclose tests the
\* connectionAttempts its closure captured, not the counter.)
AtMostFiveAutoAttempts ==
    isStreaming => sinceOpen.attempts <= MaxAttempts

\* C3: in a run of closes without an open, the delay armed for the n-th
\* automatic reconnect (n = 0..4) is 2^n seconds.  (The code arms
\* 2^captured seconds every time.)
BackoffSchedule ==
    \A n \in DOMAIN sinceOpen.delays :
        n <= MaxAttempts =>
            sinceOpen.delays[n] = Pow(BackoffBase, n - 1) * MsPerSecond

\* C4: a successful open sets connectionAttempts to 0, and when the socket the
\* client holds closes after having opened, with streaming on, a reconnect is
\* armed with a delay of 2^0 = 1 second.
RetryResetAfterOpen ==
    [][/\ \A s \in DOMAIN sockets :
             (sockets[s].readyState = "CONNECTING" /\ sockets'[s].readyState = "OPEN")
                 => connectionAttempts' = 0
       /\ \A s \in DOMAIN sockets :
             ( /\ isStreaming
               /\ wsRef = s
               /\ sockets[s].readyState = "OPEN"
               /\ sockets'[s].readyState = "CLOSED" )
                 => /\ Len(timers') = Len(timers) + 1
                    /\ timers'[Len(timers')].delay = MsPerSecond]_vars

\* C5: while streaming stays off no reconnect happens: no socket is
\* constructed and no reconnect timer is armed.
NoReconnectAfterStop ==
    [][(~isStreaming /\ ~isStreaming') =>
          /\ Len(sockets') = Len(sockets)
          /\ Len(timers') <= Len(timers)]_vars

\* C6: stop() (run twice by a flip to off: the cleanup and the effect) ends in
\* Disconnected with no socket held and no reconnect timer pending.
StopEndState ==
    [][(isStreaming /\ ~isStreaming') =>
          /\ isConnected' = FALSE
          /\ wsRef' = 0
          /\ timers' = <<>>]_vars

\* C7: an inbound frame that JSON.parse rejects changes neither the connection
\* state, the buffer nor connectionAttempts, emits no toast and leaves no
\* exception uncaught.
MalformedFrameIgnored ==
    [][(frames' = frames + 1 /\ lastFrame'.kind = "unparseable") =>
          UNCHANGED <<isConnected, isStreaming, liveSignals, lastPushed,
                      connectionAttempts, wsRef, sockets, timers, toasts,
                      uncaught>>]_vars

\* An unparseable frame has arrived after a signal was buffered.
MalformedFrameWitness ==
    /\ lastFrame.kind = "unparseable"
    /\ liveSignals # <<>>
    /\ isConnected

\* C8: after 5 closes without an open and the failure of the 5th reconnect
\* (a 6th close), the client is Disconnected, retries no more and has emitted
\* "Connection Failed" exactly once.
RetryBudgetExhaustedNotified ==
    (isStreaming /\ sinceOpen.closes = MaxAttempts + 1) =>
        /\ ~isConnected
        /\ timers = <<>>
        /\ toasts["Connection Failed"] = 1

\* C9: with the retry budget used up (connectionAttempts >= 5), a flip of
\* streaming to on resets connectionAttempts to 0 and the new connection
\* retries from 2^0 seconds.
ToggleResetsRetryBudget ==
    [][(~isStreaming /\ isStreaming' /\ connectionAttempts >= MaxAttempts) =>
          /\ connectionAttempts' = 0
          /\ oncloseReconnects(sockets'[wsRef'].env)
          /\ backoffDelay(sockets'[wsRef'].env) = MsPerSecond]_vars

\* C10: a click flips isStreaming, and only a click does; a flip to off runs
\* stop() (the held socket is closed, no socket is held, isConnected false,
\* no socket constructed), a flip to on runs start() once (exactly one socket
\* is constructed, connecting, and held).
ToggleActsOnce ==
    [][/\ (toggles' # toggles) <=> (isStreaming' # isStreaming)
       /\ (isStreaming /\ ~isStreaming') =>
             /\ Len(sockets') = Len(sockets)
             /\ wsRef' = 0
             /\ isConnected' = FALSE
             /\ wsRef # 0 => sockets'[wsRef].readyState \in {"CLOSING", "CLOSED"}
       /\ (~isStreaming /\ isStreaming') =>
             /\ Len(sockets') = Len(sockets) + 1
             /\ wsRef' = Len(sockets')
             /\ sockets'[wsRef'].readyState = "CONNECTING"
             /\ sockets'[wsRef'].env.isStreaming]_vars

\* Streaming was switched on, off and on again; the socket of the first
\* period is closing or closed and a new one is held.
ToggleActsOnceWitness ==
    /\ toggles = 3
    /\ isStreaming
    /\ Len(sockets) >= 2
    /\ wsRef = Len(sockets)
    /\ sockets[1].readyState \in {"CLOSING", "CLOSED"}

\* C11: every open event of a socket sets isConnected and makes exactly one
\* "Connected" toast, and that toast is made by nothing else.
OpenConnectsAndNotifies ==
    [][/\ \A s \in DOMAIN sockets :
             (sockets[s].readyState = "CONNECTING" /\ sockets'[s].readyState = "OPEN")
                 => /\ isConnected'
                    /\ toasts' = toast(toasts, "Connected")
       /\ toasts'["Connected"] # toasts["Connected"] =>
             \E s \in DOMAIN sockets :
                 /\ sockets[s].readyState = "CONNECTING"
                 /\ sockets'[s].readyState = "OPEN"]_vars

\* Two sockets have opened, each with its toast.
OpenConnectsWitness ==
    /\ toasts["Connected"] = 2
    /\ isConnected
    /\ wsRef # 0
    /\ sockets[wsRef].readyState = "OPEN"

\* C12: while streaming is on the status query refetches every 30 seconds,
\* and a flip of streaming to on issues a fetch at once.  (The code only arms
\* the 30 s timer at the flip; the fetch comes when it fires.)
FirstFetchOnActivation ==
    [][/\ (isStreaming' /\ mounted') => pollInterval' = PollInterval
       /\ (~isStreaming /\ isStreaming') =>
             /\ fetching'
             /\ fetches' = fetches + 1]_vars

TeardownCancelsReconnect ==
    [][~mounted =>
          /\ Len(sockets') = Len(sockets)
          /\ Len(timers') <= Len(timers)]_vars

\* C15: a failed construction of the socket makes a "Connection Failed" toast
\* and leaves the client Disconnected.  (The constructor installed on window
\* swallows the failure: no toast, and wsRef holds an inert object.)
ConstructionFailureNotified ==
    [][( /\ Len(sockets') = Len(sockets) + 1
         /\ sockets'[Len(sockets')].readyState = "MOCK" )
          => /\ toasts' = toast(toasts, "Connection Failed")
             /\ ~isConnected']_vars

\* C16: an error event makes one "Connection Error" toast and changes neither
\* isConnected, the buffer, connectionAttempts, the reconnect timers, the held
\* socket nor the streaming flag.
ErrorOnlyNotifies ==
    [][toasts'["Connection Error"] # toasts["Connection Error"] =>
          /\ toasts' = toast(toasts, "Connection Error")
          /\ UNCHANGED <<isConnected, isStreaming, liveSignals, lastPushed,
                         connectionAttempts, timers, wsRef>>]_vars

\* The held socket has had an error after it opened, its close event is still
\* to come, and the client still shows connected.
ErrorOnlyNotifiesWitness ==
    /\ toasts["Connection Error"] >= 1
    /\ isConnected
    /\ wsRef # 0
    /\ sockets[wsRef].readyState = "CLOSING"

\* C17: sending a test signal and the settling of its request change neither
\* isConnected, isStreaming, connectionAttempts nor the buffer; the settling
\* makes exactly one toast ("Test Signal Sent" or "Error"); the buffer
\* changes only in a step that delivers an inbound signal frame.
TestSignalOnlyNotifies ==
    [][/\ testPending' # testPending =>
             UNCHANGED <<isConnected, isStreaming, connectionAttempts,
                         liveSignals, wsRef, sockets, timers>>
       /\ testPending' > testPending => toasts' = toasts
       /\ testPending' < testPending =>
             \/ toasts' = toast(toasts, "Test Signal Sent")
             \/ toasts' = toast(toasts, "Error")
       /\ liveSignals' # liveSignals =>
             /\ frames' = frames + 1
             /\ JSONparse(lastFrame').type = "signal"]_vars

\* One test signal was sent and one failed, on a connected client with a
\* signal in its buffer.
TestSignalWitness ==
    /\ toasts["Test Signal Sent"] = 1
    /\ toasts["Error"] = 1
    /\ isConnected
    /\ liveSignals # <<>>

\* C18: hasAccess returns true only for the tier "elite".  (getFeatureAccess
\* has a branch for "pro" whose table grants nearly everything.)
OnlyEliteHasAccess ==
    hasFeature => userTier = "elite"

\* C19: at most one socket of the client is connecting or open at any time.
\* (connectWebSocket has no guard, and a reconnect timer of an earlier socket
\* overwrites wsRef without closing the socket it held.)
AtMostOneLiveSocket ==
    Cardinality({s \in DOMAIN sockets :
                    sockets[s].readyState \in {"CONNECTING", "OPEN"}}) <= 1

\* C20: every element of the buffer is a well-formed signal: a signal frame
\* without data is discarded.  (The code pushes message.data unchecked, then
\* throws on the toast; the push stays.)
BufferWellFormed ==
    \A i \in DOMAIN liveSignals : liveSignals[i] # Undefined

\* C21: after n signal frames the buffer is the most recent min(n, 50)
\* received payloads in reverse arrival order: nothing is reordered, changed
\* or merged (a repeated id is a second entry), and only the oldest entries
\* are gone.
BufferIsRecentHistory ==
    /\ Len(liveSignals) = Min(Len(received), BufferCapacity)
    /\ \A i \in DOMAIN liveSignals :
          liveSignals[i] = received[Len(received) + 1 - i]

\* More than 50 signal frames have arrived, one id twice in a row; both
\* copies are in the buffer and the oldest signal is gone.
BufferIsRecentHistoryWitness ==
    /\ Len(received) > BufferCapacity
    /\ \E i \in DOMAIN liveSignals :
          /\ i < Len(liveSignals)
          /\ liveSignals[i] = liveSignals[i + 1]
    /\ \A i \in DOMAIN liveSignals : liveSignals[i] # received[1]

\* C22: a connection frame, or a well-formed frame of a type the handler
\* does not know, changes neither the connection state, the buffer nor
\* connectionAttempts and emits no toast.
OtherFramesIgnored ==
    [][(frames' = frames + 1 /\ lastFrame'.kind \in {"connection", "unknown-type"}) =>
          UNCHANGED <<isConnected, isStreaming, liveSignals, lastPushed,
                      connectionAttempts, wsRef, sockets, timers, toasts,
                      uncaught, received>>]_vars

\* A frame of an unknown type has arrived after a signal, on a connected
\* client; the signal is still the buffer.
OtherFramesWitness ==
    /\ lastFrame.kind = "unknown-type"
    /\ frames = 2
    /\ Len(liveSignals) = 1
    /\ isConnected

\* C23: the flag isConnected agrees with the socket held in wsRef: it is
\* true when the held socket is open, it is true only for a held socket whose
\* open event may have been delivered and whose close event has not, and it
\* is never true while streaming is off.  (A late close event of a socket no
\* longer held clears the flag of the open socket held now, and the open
\* event of a socket made by a stale reconnect timer sets it while streaming
\* is off.)
ConnectedFlagAgrees ==
    /\ (wsRef # 0 /\ sockets[wsRef].readyState = "OPEN") => isConnected
    /\ isConnected => /\ wsRef # 0
                      /\ sockets[wsRef].readyState \in {"OPEN", "CLOSING"}
    /\ isConnected => isStreaming

\* C24: every tier other than exactly "elite" or "pro" (null, "none",
\* "basic", "premium", "free", other spellings) gets the no-access table, and
\* hasAccess is false for it on every feature, the two limits included.
NoAccessForOtherTiers ==
    /\ \A t \in Tiers \ {"elite", "pro"} :
          /\ getFeatureAccess(t) = FeaturesNone
          /\ \A f \in Features : ~hasAccess(t, f)
    /\ userTier \notin {"elite", "pro"} => ~hasFeature

\* hasAccess was called for a limit with a differently-cased "Elite" and
\* returned false.
NoAccessWitness ==
    /\ userTier = "Elite"
    /\ requiredFeature = "maxTickers"
    /\ ~hasFeature

NoTierGrantsAdmin ==
    /\ \A t \in Tiers : ~hasAccess(t, "adminAccess")
    /\ requiredFeature = "adminAccess" => ~hasFeature

\* hasAccess was called for adminAccess with "elite" and returned false.
NoTierGrantsAdminWitness ==
    /\ userTier = "elite"
    /\ requiredFeature = "adminAccess"
    /\ ~hasFeature

\* C27: for every active plan and either position of the annual toggle, the
\* card shows the yearly price per year iff the toggle is on and the plan's
\* yearlyPrice is present and greater than 0, and the monthly price per month
\* otherwise; a checkout started for the plan carries the billing interval of
\* its card, and the PayPal URL the card's price in dollars.
CheckoutsAgreeWithCard ==
    [][/\ \A i \in activePlans(subscriptionPlans) :
             LET plan   == subscriptionPlans[i]
                 yearly == /\ isAnnual
                           /\ ~plan.yearlyPrice.isNull
                           /\ plan.yearlyPrice.value > 0
                 card   == planCard(plan, isAnnual)
             IN  /\ card.period = IF yearly THEN "year" ELSE "month"
                 /\ card.price = IF yearly THEN plan.yearlyPrice.value
                                           ELSE plan.monthlyPrice
       /\ checkouts' = checkouts + 1 =>
             LET plan == subscriptionPlans[checkout'.plan]
                 card == planCard(plan, isAnnual)
             IN  /\ checkout'.billingInterval =
                        IF card.period = "year" THEN "yearly" ELSE "monthly"
                 /\ checkout'.via = "paypal" =>
                        checkout'.amount = Divide(card.price, CentsPerDollar)]_vars

\* With the toggle on annual, a PayPal checkout and a Stripe checkout were
\* started, the last one for a plan whose yearly price is 0: it is monthly.
CheckoutsAgreeWitness ==
    /\ isAnnual
    /\ checkouts = 2
    /\ stripePending = 1
    /\ checkout.via = "paypal"
    /\ checkout.plan \in DOMAIN subscriptionPlans
    /\ subscriptionPlans[checkout.plan].yearlyPrice = Price(0)
    /\ checkout.billingInterval = "monthly"
    /\ checkout.amount = Divide(subscriptionPlans[checkout.plan].monthlyPrice,
                                CentsPerDollar)

\* C28: a plan opened in the editor and saved with no field changed is
\* submitted with the prices it had: monthlyPrice is the same number of
\* cents, yearlyPrice is the same when it was a positive number of cents and
\* null when it was null or 0.
EditRoundTrip ==
    [][(updating.id = 0 /\ updating'.id # 0 /\ pristine.id # 0) =>
          /\ updating'.id = pristine.id
          /\ updating'.data.monthlyPrice = pristine.monthlyPrice
          /\ updating'.data.yearlyPrice =
                IF ~pristine.yearlyPrice.isNull /\ pristine.yearlyPrice.value > 0
                THEN pristine.yearlyPrice ELSE NullPrice]_vars

\* A plan of 29 cents a month was opened and saved unchanged: 0.29 * 100 is
\* not 29 in binary64, and 29 was submitted.
EditRoundTripWitness ==
    /\ updating.id # 0
    /\ pristine.id = updating.id
    /\ pristine.monthlyPrice = 29
    /\ Times(selectedPlan.monthlyPrice, CentsPerDollar) # Number(29)
    /\ updating.data.monthlyPrice = 29
    /\ ~updating.data.yearlyPrice.isNull

\* C29: once the effect has run, isAnnual implies that a fetched plan has a
\* yearly price; and a checkout started as "yearly" is for a plan that has
\* one.
AnnualNeedsYearlyPlans ==
    [][/\ isAnnual' => hasYearlyPlans(subscriptionPlans')
       /\ (checkouts' = checkouts + 1 /\ checkout'.billingInterval = "yearly") =>
             LET plan == subscriptionPlans[checkout'.plan]
             IN  ~plan.yearlyPrice.isNull /\ plan.yearlyPrice.value > 0]_vars

\* The annual toggle was on when plans arrived of which none has a yearly
\* price: the effect has switched back to monthly.
AnnualSwitchedBackWitness ==
    /\ switchedBack
    /\ ~isAnnual
    /\ Len(subscriptionPlans) > 0
    /\ ~hasYearlyPlans(subscriptionPlans)

\* C30: the success of an update leaves an editor alone that is open on
\* another plan than the one submitted.  (onSuccess closes the dialog and
\* drops selectedPlan whatever the editor shows.)
StaleSuccessSparesEditor ==
    [][( /\ updating.id # 0
         /\ planToasts'["Success"] = planToasts["Success"] + 1
         /\ isEditDialogOpen
         /\ selectedPlan.id # updating.id )
          => /\ isEditDialogOpen'
             /\ selectedPlan' = selectedPlan]_vars

====
